---- MODULE Spec2Model ----
(***************************************************************************)
(* Withdrawal queue (src/backend/utils/eco/withdrawalQueue.ts) and the     *)
(* withdrawal paths of the Solana and Monero services                      *)
(* (src/backend/api/exchange/order/utils.ts).                              *)
(*                                                                         *)
(* One WithdrawalQueue object exists per process (a singleton); several    *)
(* processes share the transaction table.  JavaScript runs each piece of   *)
(* code between two awaits without interruption, so one action of this     *)
(* module is the resumption of a flow after an await together with all the *)
(* synchronous code up to the next await.  The database, the chain RPCs    *)
(* and the other collaborators answer each call with a result or with an   *)
(* exception.                                                              *)
(***************************************************************************)
EXTENDS Integers, Sequences, FiniteSets, TLC

\* ------------------------------------------------------------------ bounds
NumIds    == 2          \* transaction ids
MaxAdds   == 3          \* calls that queue an id, one coordinator running
MaxSlots  == 2          \* processNext activations one coordinator can hold
MaxCalls  == 2          \* calls made on the wallet service
MaxLoops  == 3          \* checkWalletForDeposits loops started
MaxRetries == 2         \* cycles of a loop (maxRetries, 60 in the source)
MaxEvents == 2          \* log events the chain emits for an address
MaxLookups == 2         \* getTransaction calls for a signature (maxRetries
                        \* of trackTransactionSignature, 30 in the source)

\* two coordinator processes share the database
Queues == {"A", "B"}
Slots  == 1..MaxSlots
FlowIds == Queues \X Slots

\* ------------------------------------------------------- records and data
\* metadata column of a transaction row (withdrawalQueue.ts:96-103)
MetaKinds == {"SOL", "XMR", "NoChain", "Malformed",
              "BTC", "LTC", "DOGE", "DASH", "TRON", "ETH", "FOO"}

\* the rows the transaction table can hold for an id when the run starts
Profiles ==
  << [exists |-> TRUE,  meta |-> "SOL",       amount |-> 1, fee |-> 2,
      currency |-> "SOL", walletId |-> "wallet", toAddress |-> "dest"],
     [exists |-> TRUE,  meta |-> "XMR",       amount |-> 5, fee |-> 0,
      currency |-> "XMR", walletId |-> "wallet", toAddress |-> "dest"],
     [exists |-> TRUE,  meta |-> "NoChain",   amount |-> 3, fee |-> 0,
      currency |-> "SOL", walletId |-> "wallet", toAddress |-> "dest"],
     [exists |-> TRUE,  meta |-> "Malformed", amount |-> 4, fee |-> 0,
      currency |-> "SOL", walletId |-> "wallet", toAddress |-> "dest"],
     [exists |-> FALSE, meta |-> "SOL",       amount |-> 1, fee |-> 0,
      currency |-> "SOL", walletId |-> "wallet", toAddress |-> "dest"] >>

\* rows of the chains whose handlers live in other modules: the four UTXO
\* chains, Tron, an EVM chain, and a chain identifier nobody knows
OtherChains == <<"BTC", "LTC", "DOGE", "DASH", "TRON", "ETH", "FOO">>

ExternalProfiles ==
  [k \in 1..Len(OtherChains) |->
     [exists |-> TRUE, meta |-> OtherChains[k], amount |-> 5 + k, fee |-> 0,
      currency |-> OtherChains[k], walletId |-> "wallet",
      toAddress |-> "dest"]]

AllProfiles == Profiles \o ExternalProfiles

\* the if / else-if chain of processNext: the handler a chain goes to
UtxoChains == {"BTC", "LTC", "DOGE", "DASH"}

\* variant: the Tron branch is missing, so TRON falls through to the last
\* branch
FamilyWithoutTron(chain) ==
  IF chain \in UtxoChains THEN "UTXO"
  ELSE IF chain = "SOL" THEN "SOL"
  ELSE IF chain = "XMR" THEN "XMR"
  ELSE "EVM"

Family(chain) ==
  IF chain \in UtxoChains THEN "UTXO"
  ELSE IF chain = "SOL" THEN "SOL"
  ELSE IF chain = "TRON" THEN "TRON"
  ELSE IF chain = "XMR" THEN "XMR"
  ELSE "EVM"

\* error.message values that travel through the catch blocks
NoErr        == "none"
DbError      == "database error"
BackendError == "insufficient funds"
NoTxHash     == "Failed to execute Monero transaction."
NotConfirmed == "Transaction not found or not confirmed"
ChainError   == "Transaction failed with error"
InvalidChain == "Invalid or missing chain in transaction metadata"
ParseError   == "Unexpected token in JSON"
ProbeError   == "HTTP error"
EmailError   == "email queue error"
RefundError  == "refund error"
NotifyError  == "notification error"
RpcError     == "failed to get transaction"
BackendErrors == {BackendError, NoTxHash, NotConfirmed, ChainError, RpcError}

NoDesc == [by |-> "none", msg |-> NoErr]
NoRef  == "none"
Sig(id) == <<"sig", id>>

VARIABLES
  queue,                  \* queue[q]: WithdrawalQueue.queue of coordinator q
  isProcessing,           \* isProcessing[q]
  processingTransactions, \* processingTransactions[q]
  flow,                   \* flow[<<q,s>>]: one activation of processNext
  profile,                \* profile[id]: the row as inserted (never changes)
  db,                     \* db[id]: status, description, referenceId, amount
  moneroInstance,         \* moneroInstance[q]: MoneroService.instance is set
  nodeReady,              \* nodeReady[c]: what a probe of chain c finds
  chainActive,            \* chainActive[q][c]: the chainActive field of the
                          \* service of chain c in process q
  transferCalls,          \* transferCalls[id]: calls of handle*Withdrawal
  invoked,                \* invoked[id]: these calls, with the handler called
                          \* and the arguments passed, in call order
  addsLeft,               \* addsLeft[q]: calls coordinator q will still accept
  accepted,               \* accepted[id]: addTransaction calls that queued id
  claims,                 \* claims[id]: conditional updates that hit the row
  claimMisses,            \* claimMisses[id]: conditional updates that hit none
  broadcast,              \* broadcast[id]: signatures/hashes sent to a chain
  refunds,                \* refunds[id]: amounts passed to refundUser
  confirmEmails,          \* confirmEmails[id]: confirmation emails queued
  failEmails,             \* failEmails[id]: failure emails queued (reasons)
  notifications,          \* notifications[id]: handleNotification calls
  adminProfits,           \* adminProfits[id]: adminProfit rows created
  faults,                 \* exceptions thrown so far by database, mail, refund
  monero,                 \* the statics of MoneroService, the calls of its
                          \* wallet operations and the wallet RPC server
  solana,                 \* solana[a]: the deposit watch of
                          \* monitorSolanaDeposits on address a
  rejections              \* rejections[q]: the pairs <<id, error>> with which
                          \* a promise of processNext, which nobody awaits,
                          \* was rejected

\* the transaction ids callers pass: the keys of the table the run starts with
Ids == DOMAIN profile

qvars == <<queue, isProcessing, processingTransactions>>
obs   == <<transferCalls, invoked, claims, claimMisses, broadcast, refunds, confirmEmails,
           failEmails, notifications, adminProfits>>
vars  == <<queue, isProcessing, processingTransactions, flow, profile, db,
           moneroInstance, nodeReady, chainActive, addsLeft, accepted,
           transferCalls, invoked, claims, claimMisses, broadcast, refunds,
           confirmEmails, failEmails, notifications, adminProfits, faults,
           monero, rejections, solana>>

\* ----------------------------------------------- MoneroService, its wallets
\* the custodial wallets, and the one inbound chain transaction, paid to
\* PaidWallet
Wallets == {"w1", "w2"}
PaidWallet == "w1"
TxIds == {"T"}

\* the calls that run in the service: handleMoneroWithdrawal (task 0) and
\* the checkWalletForDeposits loops, numbered as they are started
WithdrawalTask == 0
Loops == 1..MaxLoops
Tasks == {WithdrawalTask} \cup Loops
NoTask == -1

\* pc: the await the call is suspended at; next: what it called when it
\* became the one running processQueue; res: what the wallet RPC answered;
\* seen: the confirmations of the transfer that get_transfers listed last
IdleTask == [pc |-> "idle", wallet |-> "none", retryCount |-> 0,
             next |-> "none", res |-> "none", seen |-> 0]

\* minConfirmations of processMonitoredWallets, and its test
MinConfirmations == 6

\* variant: one confirmation less is enough
IsConfirmedEarly(c) == c >= MinConfirmations - 1

IsConfirmed(c) == c >= MinConfirmations

\* get_transfers lists no inbound transfer
NoTransfers == 0

\* an entry of MoneroService.queue: the closure of openWallet or closeWallet
NoOp == [kind |-> "none", wallet |-> "none", by |-> NoTask]
\* the wallet the RPC server has open, and whose open_wallet opened it
NoSession == [wallet |-> "none", by |-> NoTask]

\* queue, processing, monitoredWallets (in insertion order) and
\* processedTransactions are the statics of the class; running is the
\* operation processQueue awaits; open is the session of the wallet RPC
\* server;
\* deposits counts the records stored per chain transaction; confirmations
\* is what the chain transaction has got; executing counts the operations
\* processQueue has called and not yet seen end; walletFileLost says that
\* the wallet file of the withdrawal cannot be opened; calls and loops
\* count the calls still accepted and the loops started
MoneroInit ==
  [queue |-> <<>>, processing |-> FALSE, running |-> NoOp,
   monitoredWallets |-> <<>>, processedTransactions |-> {},
   task |-> [t \in Tasks |-> IdleTask],
   open |-> NoSession,
   deposits |-> [x \in TxIds |-> 0],
   confirmations |-> MinConfirmations - 1,
   executing |-> 0, walletFileLost |-> FALSE,
   calls |-> MaxCalls, loops |-> 0]

\* ------------------------------------- SolanaService.monitorSolanaDeposits
\* the address watched. A call of monitorSolanaDeposits has its own
\* connection, timer, subscription id and callback and shares no state with
\* another call, so the watch of one address is followed
Addresses == {"a1"}

\* logsSubscriptionId before onLogs returned and after the listener was
\* removed; the first subscription of a connection has id 0
Null == -1
FirstSubscriptionId == 0

\* what getTransaction can return for a signature: the transaction with or
\* without meta, with the watched address among its account keys or not,
\* and the balances of that account before and after, in lamports
Lamports == {0, 1, 2}
Transactions == [meta : BOOLEAN, keyed : BOOLEAN,
                 pre : Lamports, post : Lamports]
NoTx == [meta |-> FALSE, keyed |-> FALSE, pre |-> 0, post |-> 0]

\* one call of trackTransactionSignature: the await it is suspended at
\* ("lookup": getTransaction, "sleep": the 5 s pause, "store":
\* storeAndBroadcastTransaction), its retries counter, and the transaction
\* it goes on to store
NoTrack == [pc |-> "idle", retries |-> 0, tx |-> NoTx]

\* timer: inactivityTimeout ("none" before the call, then "armed",
\* "cleared" or "fired"); listening: the callback is registered at the
\* connection; tracking: callbacks inside trackTransactionSignature;
\* closing: callbacks and timeout handlers awaiting removeOnLogsListener;
\* deposits: records stored; events: log events emitted by the chain; late:
\* those of them that found no listener; track[e]: the call of
\* trackTransactionSignature made for the e-th event
NoWatch == [timer |-> "none", logsSubscriptionId |-> Null,
            listening |-> FALSE, tracking |-> 0, closing |-> 0,
            deposits |-> 0, events |-> 0, late |-> 0,
            track |-> [e \in 1..MaxEvents |-> NoTrack]]

\* pc: the await the activation is suspended at; err: the exception on its
\* way to a catch block; backend: what the transfer of the backend did
\* ("none" before it ended, "ok" when it returned a signature or hash);
\* wait and txResult: inside transferSol, how confirmTransaction ended and
\* what getTransaction returned
Idle == [pc |-> "idle", id |-> 0, err |-> NoErr, backend |-> "none",
         wait |-> "none", txResult |-> "none"]

FlowsOf(q) == {f \in FlowIds : f[1] = q}
Active(f)  == flow[f].pc # "idle"

InitRow(p) ==
  [status |-> IF p.exists THEN "PENDING" ELSE "ABSENT",
   description |-> NoDesc, referenceId |-> NoRef, amount |-> p.amount]

InitCommon ==
  /\ queue = [q \in Queues |-> <<>>]
  /\ isProcessing = [q \in Queues |-> FALSE]
  /\ processingTransactions = [q \in Queues |-> {}]
  /\ flow = [f \in FlowIds |-> Idle]
  /\ db = [id \in Ids |-> InitRow(profile[id])]
  /\ moneroInstance = [q \in Queues |-> FALSE]
  /\ chainActive = [q \in Queues |-> [SOL |-> FALSE, XMR |-> FALSE]]
  /\ transferCalls = [id \in Ids |-> 0]
  /\ invoked = [id \in Ids |-> <<>>]
  /\ accepted = [id \in Ids |-> 0]
  /\ claims = [id \in Ids |-> 0]
  /\ claimMisses = [id \in Ids |-> 0]
  /\ broadcast = [id \in Ids |-> {}]
  /\ refunds = [id \in Ids |-> <<>>]
  /\ confirmEmails = [id \in Ids |-> 0]
  /\ failEmails = [id \in Ids |-> <<>>]
  /\ notifications = [id \in Ids |-> 0]
  /\ adminProfits = [id \in Ids |-> <<>>]
  /\ faults = 0
  /\ monero = MoneroInit
  /\ rejections = [q \in Queues |-> {}]
  /\ solana = [a \in Addresses |-> NoWatch]

\* The ids are interchangeable (they are only compared for equality), so
\* the rows are handed out in the order of Profiles: every other table is
\* one of these with the ids renamed.
InitTable(keys, kinds) ==
  /\ \E a \in [keys -> kinds] :
        /\ \A i, j \in keys : i < j => a[i] <= a[j]
        /\ profile = [id \in keys |-> AllProfiles[a[id]]]
  /\ InitCommon

\* NumIds ids, each with any of the rows
InitRows == InitTable(1..NumIds, 1..Len(Profiles))

\* the sol.bin file is installed and the Monero daemon is synchronized
AllReady == nodeReady = [SOL |-> TRUE, XMR |-> TRUE]

\* one process runs the queue (the second coordinator is never called)
Init ==
  /\ InitRows
  /\ AllReady
  /\ addsLeft = [q \in Queues |-> IF q = "A" THEN MaxAdds ELSE 0]

\* two processes run a queue each, on the same database, and each of them
\* is handed one id
InitRace ==
  /\ InitRows
  /\ AllReady
  /\ addsLeft = [q \in Queues |-> 1]

\* rows that are found and name a chain
RoutedKinds == {k \in 1..Len(Profiles) :
                  Profiles[k].exists /\ Profiles[k].meta \in {"SOL", "XMR"}}

\* three ids, so that two of them can wait behind the one in flight
FifoIds == {1, 2, 3}

\* one process runs the queue and is handed the ids of three routed rows
InitFifo ==
  /\ InitTable(FifoIds, RoutedKinds)
  /\ AllReady
  /\ addsLeft = [q \in Queues |-> IF q = "A" THEN MaxAdds ELSE 0]

\* one process runs the queue, on a host where either chain may be ready
\* or not
InitChain ==
  /\ InitRows
  /\ nodeReady \in [{"SOL", "XMR"} -> BOOLEAN]
  /\ addsLeft = [q \in Queues |-> IF q = "A" THEN MaxAdds ELSE 0]

\* ------------------------------------------------- WithdrawalQueue itself
Includes(s, x) == \E i \in 1..Len(s) : s[i] = x

\* (variant: the test of the pending list is missing)
AlreadyInFlight(q, id) == id \in processingTransactions[q]

\* (variant: the test of the in-flight set is missing)
AlreadyQueued(q, id) == Includes(queue[q], id)

\* addTransaction: the two tests that make the call a no-op
AlreadyKnown(q, id) ==
  id \in processingTransactions[q] \/ Includes(queue[q], id)

\* (variant: the isProcessing flag is not tested)
BusyIgnoresFlag(isP, qu) == qu = <<>>

\* processNext: `if (this.isProcessing || this.queue.length === 0) return`
Busy(isP, qu) == isP \/ qu = <<>>

\* (variant: the newest entry is taken, `pop` for `shift`)
Pop(qu) == <<qu[Len(qu)], SubSeq(qu, 1, Len(qu) - 1)>>

\* `this.queue.shift()`: the entry taken and the entries left
Shift(qu) == <<Head(qu), Tail(qu)>>

FreeSlots(fl, q) == {s \in Slots : fl[<<q, s>>].pc = "idle"}

\* processNext() called with the coordinator's fields holding qu, isP, pt:
\* the code up to the first await (the findOne call)
ProcessNext(q, qu, isP, pt, fl) ==
  IF Busy(isP, qu) \/ FreeSlots(fl, q) = {}
  THEN /\ queue' = [queue EXCEPT ![q] = qu]
       /\ isProcessing' = [isProcessing EXCEPT ![q] = isP]
       /\ processingTransactions' = [processingTransactions EXCEPT ![q] = pt]
       /\ flow' = fl
  ELSE LET id == Shift(qu)[1]
           s  == CHOOSE x \in FreeSlots(fl, q) :
                   \A y \in FreeSlots(fl, q) : x <= y
       IN /\ queue' = [queue EXCEPT ![q] = Shift(qu)[2]]
          /\ isProcessing' = [isProcessing EXCEPT ![q] = TRUE]
          /\ processingTransactions' =
               [processingTransactions EXCEPT ![q] = pt \cup {id}]
          /\ flow' = [fl EXCEPT ![<<q, s>>] =
                        [Idle EXCEPT !.pc = "findOne", !.id = id]]

\* the call of a handler for the row of id: handleUTXOWithdrawal gets the
\* row itself (its metadata included), handleEvmWithdrawal gets the chain,
\* the services get the id, the wallet id, the amount and the address
NoChainArg == "none"

CallOf(id) ==
  LET fam == Family(profile[id].meta) IN
  [handler |-> fam, transactionId |-> id,
   walletId |-> profile[id].walletId, amount |-> db[id].amount,
   toAddress |-> profile[id].toAddress,
   chain |-> IF fam \in {"UTXO", "EVM"} THEN profile[id].meta
             ELSE NoChainArg]

\* variant: the finally block does not call processNext
FinallyStartsNothing(f) ==
  /\ queue' = queue
  /\ isProcessing' = [isProcessing EXCEPT ![f[1]] = FALSE]
  /\ processingTransactions' =
       [processingTransactions EXCEPT ![f[1]] = @ \ {flow[f].id}]
  /\ flow' = [flow EXCEPT ![f] = Idle]

\* the finally block of processNext
Finally(f) ==
  ProcessNext(f[1], queue[f[1]], FALSE,
              processingTransactions[f[1]] \ {flow[f].id},
              [flow EXCEPT ![f] = Idle])

\* the flow goes on to its next await
Goto(f, pc) ==
  /\ flow' = [flow EXCEPT ![f].pc = pc]
  /\ UNCHANGED qvars

\* an exception with message e leaves the current block
Throw(f, pc, e) ==
  /\ flow' = [flow EXCEPT ![f].pc = pc, ![f].err = e]
  /\ UNCHANGED qvars

\* A behaviour sees at most one exception from the database, the mail
\* queue, the refund, the notification or the daemon probe; the outcomes of
\* the chain (a failed or rejected transfer) are not counted here.
FaultOrdinals == {1}

\* the database or a collaborator answers a call with an exception
Fault == (faults + 1) \in FaultOrdinals /\ faults' = faults + 1

\* variant: an exception inside the catch block puts the id back into
\* the pending list before the finally block runs
RejectsRequeues(f, e) ==
  /\ ProcessNext(f[1], Append(queue[f[1]], flow[f].id), FALSE,
                 processingTransactions[f[1]] \ {flow[f].id},
                 [flow EXCEPT ![f] = Idle])
  /\ rejections' = [rejections EXCEPT ![f[1]] = @ \cup {<<flow[f].id, e>>}]

\* an exception with message e is thrown inside the catch block: the
\* finally block runs and the promise of processNext is rejected with e
Rejects(f, e) ==
  /\ Finally(f)
  /\ rejections' = [rejections EXCEPT ![f[1]] = @ \cup {<<flow[f].id, e>>}]

\* an exception reaches the catch block of processNext, which starts by
\* writing FAILED
Catch(f, e) == Throw(f, "c_writeF", e)

\* the transfer of a backend ends: with a signature or hash (e = "ok", the
\* flow goes on at pc), or with an exception caught by the backend's handler
TransferEnds(f, pc, e) ==
  /\ flow' = [flow EXCEPT ![f].pc = pc, ![f].backend = e,
                          ![f].err = IF e = "ok" THEN @ ELSE e]
  /\ UNCHANGED qvars

\* variant: addTransaction awaits processNext, so the call lasts into the
\* processing and an exception of the first query surfaces in the call
AddTransactionAwaits(q, id) ==
  /\ IF AlreadyKnown(q, id)
     THEN UNCHANGED <<qvars, flow, accepted, addsLeft, faults, rejections>>
     ELSE /\ addsLeft[q] > 0
          /\ addsLeft' = [addsLeft EXCEPT ![q] = @ - 1]
          /\ ProcessNext(q, Append(queue[q], id), isProcessing[q],
                         processingTransactions[q], flow)
          /\ accepted' = [accepted EXCEPT ![id] = @ + 1]
          /\ \/ UNCHANGED <<faults, rejections>>
             \/ /\ Fault
                /\ rejections' =
                     [rejections EXCEPT ![q] = @ \cup {<<id, DbError>>}]
  /\ UNCHANGED <<monero, solana, profile, db, moneroInstance, nodeReady, chainActive, obs>>

\* addTransaction(transactionId): synchronous; it starts processNext and
\* does not await it
AddTransaction(q, id) ==
  /\ IF AlreadyKnown(q, id)
     THEN UNCHANGED <<qvars, flow, accepted, addsLeft>>
     ELSE /\ addsLeft[q] > 0
          /\ addsLeft' = [addsLeft EXCEPT ![q] = @ - 1]
          /\ ProcessNext(q, Append(queue[q], id), isProcessing[q],
                         processingTransactions[q], flow)
          /\ accepted' = [accepted EXCEPT ![id] = @ + 1]
  /\ UNCHANGED <<monero, solana, rejections, profile, db, moneroInstance, nodeReady, chainActive, obs, faults>>

\* the call returned without an exception
Ok == UNCHANGED faults

\* findOne with the ECO wallet included returns, or throws
LoadTransaction(f) ==
  /\ flow[f].pc = "findOne"
  /\ \/ Fault /\ Catch(f, DbError)
     \/ /\ Ok
        /\ IF db[flow[f].id].status = "ABSENT"
           THEN Finally(f)
           ELSE Goto(f, "claim")
  /\ UNCHANGED <<monero, solana, rejections, profile, addsLeft, accepted, db, moneroInstance, nodeReady, chainActive, obs>>

\* (variants: the update is not conditional; it also takes rows that are
\* PROCESSING; it also takes rows that are FAILED)
ClaimIgnoresStatus(status) == status # "ABSENT"
ClaimTakesProcessing(status) == status \in {"PENDING", "PROCESSING"}
ClaimRetriesFailed(status) == status \in {"PENDING", "FAILED"}
ClaimRetriesCompleted(status) == status \in {"PENDING", "COMPLETED"}

\* `where: { id, status: "PENDING" }`
ClaimHits(status) == status = "PENDING"

SetStatus(id, st) == [db EXCEPT ![id].status = st]

\* SolanaService.getInstance: the first call looks for the sol.bin file and
\* sets chainActive when it is there (the file does not come or go, so a
\* later look would find the same)
SolanaCheckChainStatus(q) ==
  [chainActive EXCEPT ![q].SOL = nodeReady.SOL]

\* the conditional update returns, then metadata is parsed and the backend
\* is chosen; for SOL the service instance is fetched
ClaimTransaction(f) ==
  LET id == flow[f].id
      meta == profile[id].meta
      Invoke ==
        /\ transferCalls' = [transferCalls EXCEPT ![id] = @ + 1]
        /\ invoked' = [invoked EXCEPT ![id] = Append(@, CallOf(id))]
  IN
  /\ flow[f].pc = "claim"
  /\ \/ /\ Fault
        /\ Catch(f, DbError)
        /\ UNCHANGED <<db, claims, claimMisses, transferCalls, invoked, chainActive>>
     \/ /\ Ok
        /\ IF ClaimHits(db[id].status)
           THEN /\ db' = SetStatus(id, "PROCESSING")
                /\ chainActive' = IF meta = "SOL"
                                  THEN SolanaCheckChainStatus(f[1])
                                  ELSE chainActive
                /\ claims' = [claims EXCEPT ![id] = @ + 1]
                /\ UNCHANGED claimMisses
                /\ CASE meta = "Malformed" ->
                          /\ Catch(f, ParseError)
                          /\ UNCHANGED <<transferCalls, invoked>>
                     [] meta = "NoChain" ->
                          /\ Catch(f, InvalidChain)
                          /\ UNCHANGED <<transferCalls, invoked>>
                     [] OTHER ->
                          CASE Family(meta) = "SOL" ->
                                 /\ Goto(f, "sol_send")
                                 /\ Invoke
                            [] Family(meta) = "XMR" ->
                                 /\ Goto(f, "xmr_instance")
                                 /\ UNCHANGED <<transferCalls, invoked>>
                            [] Family(meta) = "TRON" ->
                                 /\ Goto(f, "tron_instance")
                                 /\ UNCHANGED <<transferCalls, invoked>>
                            [] OTHER ->
                                 /\ Goto(f, "ext_transfer")
                                 /\ Invoke
           ELSE /\ Finally(f)
                /\ claimMisses' = [claimMisses EXCEPT ![id] = @ + 1]
                /\ UNCHANGED <<db, claims, transferCalls, invoked, chainActive>>
  /\ UNCHANGED <<monero, solana, rejections, profile, addsLeft, accepted, moneroInstance, nodeReady,
                 broadcast, refunds, confirmEmails,
                 failEmails, notifications, adminProfits>>

\* --------------------------------------------------------- status writes
\* `update({status: "COMPLETED", referenceId}, {where: {id}})`
WriteCompleted(id, ref) ==
  IF db[id].status = "ABSENT" THEN db
  ELSE [db EXCEPT ![id].status = "COMPLETED", ![id].referenceId = ref]

\* (variant: the write creates the row when there is none)
WriteFailedUpserts(id, who, e) ==
  [db EXCEPT ![id].status = "FAILED",
             ![id].description = [by |-> who, msg |-> e]]

\* `update({status: "FAILED", description}, {where: {id}})`: no test of the
\* current status
WriteFailed(id, who, e) ==
  IF db[id].status = "ABSENT" THEN db
  ELSE [db EXCEPT ![id].status = "FAILED",
                  ![id].description = [by |-> who, msg |-> e]]

\* ------------------------------------- SolanaService.handleSolanaWithdrawal
\* how confirmTransaction can end, and what getTransaction can answer: the
\* transaction with meta.err null, with meta.err set, without meta, null, or
\* an exception of the RPC
WaitResults == {"confirmed", "threw"}
TxResults == {"found_ok", "found_err", "no_meta", "missing", "threw"}

\* (variant: a confirmation wait that threw makes the transfer fail)
TransferSolNeedsWait(wait, txResult) ==
  IF wait = "threw" \/ txResult \in {"no_meta", "missing"} THEN NotConfirmed
  ELSE IF txResult = "found_ok" THEN "ok"
  ELSE IF txResult = "found_err" THEN ChainError
  ELSE RpcError

\* the end of transferSol: the signature ("ok") or the message of the error
TransferSol(wait, txResult) ==
  IF txResult = "found_ok" THEN "ok"
  ELSE IF txResult = "found_err" THEN ChainError
  ELSE IF txResult \in {"no_meta", "missing"} THEN NotConfirmed
  ELSE RpcError

\* the flow leaves the backend's status write for pc
Leave(f, pc, e) ==
  /\ flow' = [flow EXCEPT ![f].pc = pc, ![f].err = e,
                          ![f].wait = "none", ![f].txResult = "none"]
  /\ UNCHANGED qvars

\* transferSol up to the status query: key lookup, blockhash, signing and
\* the broadcast, any of which may throw; then confirmTransaction, whose
\* exception is only logged
SolSend(f) ==
  LET id == flow[f].id IN
  /\ flow[f].pc = "sol_send"
  /\ \/ TransferEnds(f, "sol_writeF", BackendError) /\ UNCHANGED broadcast
     \/ /\ broadcast' = [broadcast EXCEPT ![id] = @ \cup {Sig(id)}]
        /\ \E w \in WaitResults :
             flow' = [flow EXCEPT ![f].pc = "sol_status", ![f].wait = w]
        /\ UNCHANGED qvars
  /\ UNCHANGED <<monero, solana, rejections, profile, addsLeft, accepted, db, moneroInstance, nodeReady, chainActive, transferCalls, invoked, claims, claimMisses,
                 refunds,
                 confirmEmails, failEmails, notifications, adminProfits, faults>>

\* getTransaction answers and transferSol ends
SolStatus(f) ==
  /\ flow[f].pc = "sol_status"
  /\ \E r \in TxResults :
       LET e == TransferSol(flow[f].wait, r) IN
       /\ flow' = [flow EXCEPT
                     ![f].pc = IF e = "ok" THEN "sol_writeC" ELSE "sol_writeF",
                     ![f].backend = e,
                     ![f].err = IF e = "ok" THEN @ ELSE e,
                     ![f].txResult = r]
       /\ UNCHANGED qvars
  /\ UNCHANGED <<monero, solana, rejections, profile, addsLeft, accepted, db, moneroInstance, nodeReady, chainActive, obs, faults>>

\* the COMPLETED write of handleSolanaWithdrawal
SolWriteCompleted(f) ==
  LET id == flow[f].id IN
  /\ flow[f].pc = "sol_writeC"
  /\ \/ Fault /\ Leave(f, "sol_writeF", DbError) /\ UNCHANGED db
     \/ /\ Ok
        /\ db' = WriteCompleted(id, Sig(id))
        /\ Leave(f, "q_user", flow[f].err)
  /\ UNCHANGED <<monero, solana, rejections, profile, addsLeft, accepted, moneroInstance, nodeReady, chainActive, obs>>

\* the catch block of handleSolanaWithdrawal: write FAILED, rethrow
SolWriteFailed(f) ==
  LET id == flow[f].id IN
  /\ flow[f].pc = "sol_writeF"
  /\ \/ Fault /\ Leave(f, "c_writeF", DbError) /\ UNCHANGED db
     \/ /\ Ok
        /\ db' = WriteFailed(id, "backend", flow[f].err)
        /\ Leave(f, "c_writeF", flow[f].err)
  /\ UNCHANGED <<monero, solana, rejections, profile, addsLeft, accepted, moneroInstance, nodeReady, chainActive, obs>>

\* ------------------------------------- MoneroService.handleMoneroWithdrawal
\* checkChainStatus: chainActive is what get_info says of `synchronized`
MoneroCheckChainStatus(q) ==
  [chainActive EXCEPT ![q].XMR = nodeReady.XMR]

\* MoneroService.getInstance: the first call probes the daemon, which may
\* throw after the instance was stored; then handleMoneroWithdrawal is
\* called and opens the wallet (openWallet reports no error to its caller)
MoneroGetInstance(f) ==
  LET id == flow[f].id
      q  == f[1]
      Call == /\ transferCalls' = [transferCalls EXCEPT ![id] = @ + 1]
              /\ invoked' = [invoked EXCEPT ![id] = Append(@, CallOf(id))]
              /\ Goto(f, "xmr_transfer")
  IN
  /\ flow[f].pc = "xmr_instance"
  /\ moneroInstance' = [moneroInstance EXCEPT ![q] = TRUE]
  /\ \/ /\ Ok
        /\ Call
        /\ chainActive' = IF moneroInstance[q] THEN chainActive
                          ELSE MoneroCheckChainStatus(q)
     \/ /\ ~moneroInstance[q]
        /\ Fault
        /\ Catch(f, ProbeError)
        /\ UNCHANGED <<transferCalls, invoked, chainActive>>
  /\ UNCHANGED <<monero, solana, rejections, profile, nodeReady, addsLeft, accepted, db, claims, claimMisses, broadcast, refunds,
                 confirmEmails,
                 failEmails, notifications, adminProfits>>

\* the transfer RPC: a tx_hash, a response without one, or an exception
MoneroTransfer(f) ==
  LET id == flow[f].id IN
  /\ flow[f].pc = "xmr_transfer"
  /\ \/ /\ broadcast' = [broadcast EXCEPT ![id] = @ \cup {Sig(id)}]
        /\ TransferEnds(f, "xmr_writeC", "ok")
     \/ /\ \E e \in {NoTxHash, BackendError} :
             TransferEnds(f, "xmr_writeF", e)
        /\ UNCHANGED broadcast
  /\ UNCHANGED <<monero, solana, rejections, profile, addsLeft, accepted, db, moneroInstance, nodeReady, chainActive, transferCalls, invoked, claims, claimMisses,
                 refunds,
                 confirmEmails, failEmails, notifications, adminProfits, faults>>

\* the COMPLETED write, then resolve()
MoneroWriteCompleted(f) ==
  LET id == flow[f].id IN
  /\ flow[f].pc = "xmr_writeC"
  /\ \/ Fault /\ Throw(f, "xmr_writeF", DbError) /\ UNCHANGED db
     \/ Ok /\ db' = WriteCompleted(id, Sig(id)) /\ Goto(f, "q_user")
  /\ UNCHANGED <<monero, solana, rejections, profile, addsLeft, accepted, moneroInstance, nodeReady, chainActive, obs>>

\* where the flow goes when the FAILED write inside the promise executor
\* throws: reject() is skipped and the promise that processNext awaits is
\* never settled (the process may also die of the unhandled rejection)
AfterExecutorThrow == "hung"

\* the catch block of the executor: write FAILED, then reject(error)
MoneroWriteFailed(f) ==
  LET id == flow[f].id IN
  /\ flow[f].pc = "xmr_writeF"
  /\ \/ Fault /\ Goto(f, AfterExecutorThrow) /\ UNCHANGED db
     \/ /\ Ok
        /\ db' = WriteFailed(id, "backend", flow[f].err)
        /\ Catch(f, flow[f].err)
  /\ UNCHANGED <<monero, solana, rejections, profile, addsLeft, accepted, moneroInstance, nodeReady, chainActive, obs>>

\* ------------------------------------------ processNext after the backend
\* user.findOne and wallet.findOne (the owner and the ECO wallet of a loaded
\* transaction exist)
QueueFindUser(f) ==
  /\ flow[f].pc = "q_user"
  /\ \/ Fault /\ Catch(f, DbError)
     \/ Ok /\ Goto(f, "q_email")
  /\ UNCHANGED <<monero, solana, rejections, profile, addsLeft, accepted, db, moneroInstance, nodeReady, chainActive, obs>>

\* `typeof transaction.fee === "number" && transaction.fee > 0`
HasFee(fee) == fee > 0

\* sendEcoWithdrawalConfirmationEmail, then the fee test
QueueConfirmEmail(f) ==
  LET id == flow[f].id IN
  /\ flow[f].pc = "q_email"
  /\ \/ Fault /\ Catch(f, EmailError) /\ UNCHANGED confirmEmails
     \/ /\ Ok
        /\ confirmEmails' = [confirmEmails EXCEPT ![id] = @ + 1]
        /\ IF HasFee(profile[id].fee)
           THEN Goto(f, "q_profit")
           ELSE Finally(f)
  /\ UNCHANGED <<monero, solana, rejections, profile, addsLeft, accepted, db, moneroInstance, nodeReady, chainActive, transferCalls, invoked, claims, claimMisses,
                 broadcast,
                 refunds, failEmails, notifications, adminProfits>>

\* adminProfit.create
QueueAdminProfit(f) ==
  LET id == flow[f].id IN
  /\ flow[f].pc = "q_profit"
  /\ \/ Fault /\ Catch(f, DbError) /\ UNCHANGED adminProfits
     \/ /\ Ok
        /\ adminProfits' =
             [adminProfits EXCEPT ![id] =
                Append(@, [amount |-> profile[id].fee,
                           currency |-> profile[id].currency,
                           chain |-> profile[id].meta,
                           transactionId |-> id])]
        /\ Finally(f)
  /\ UNCHANGED <<monero, solana, rejections, profile, addsLeft, accepted, db, moneroInstance, nodeReady, chainActive, transferCalls, invoked, claims, claimMisses,
                 broadcast,
                 refunds, confirmEmails, failEmails, notifications>>

\* --------------------------------------- the catch block of processNext
\* the FAILED write; when it throws the exception leaves processNext
\* through the finally block
CatchWriteFailed(f) ==
  LET id == flow[f].id IN
  /\ flow[f].pc = "c_writeF"
  /\ \/ Fault /\ Rejects(f, DbError) /\ UNCHANGED db
     \/ /\ Ok
        /\ db' = WriteFailed(id, "queue", flow[f].err)
        /\ Goto(f, "c_find")
        /\ UNCHANGED rejections
  /\ UNCHANGED <<monero, solana, profile, addsLeft, accepted, moneroInstance, nodeReady, chainActive, obs>>

\* findByPk with the ECO wallet, then the call of refundUser
CatchFind(f) ==
  LET id == flow[f].id IN
  /\ flow[f].pc = "c_find"
  /\ \/ Fault /\ Rejects(f, DbError) /\ UNCHANGED refunds
     \/ /\ Ok
        /\ UNCHANGED rejections
        /\ IF db[id].status = "ABSENT"
           THEN Finally(f) /\ UNCHANGED refunds
           ELSE /\ refunds' =
                     [refunds EXCEPT ![id] = Append(@, db[id].amount)]
                /\ Goto(f, "c_refund")
  /\ UNCHANGED <<monero, solana, profile, addsLeft, accepted, db, moneroInstance, nodeReady, chainActive, transferCalls, invoked, claims, claimMisses,
                 broadcast,
                 confirmEmails, failEmails, notifications, adminProfits>>

\* refundUser returns or throws
CatchRefund(f) ==
  /\ flow[f].pc = "c_refund"
  /\ \/ Fault /\ Rejects(f, RefundError)
     \/ Ok /\ Goto(f, "c_user") /\ UNCHANGED rejections
  /\ UNCHANGED <<monero, solana, profile, addsLeft, accepted, db, moneroInstance, nodeReady, chainActive, obs>>

\* user.findOne, then the metadata is parsed again for the email
CatchFindUser(f) ==
  /\ flow[f].pc = "c_user"
  /\ \/ Fault /\ Rejects(f, DbError)
     \/ /\ Ok
        /\ IF profile[flow[f].id].meta = "Malformed"
           THEN Rejects(f, ParseError)
           ELSE Goto(f, "c_email") /\ UNCHANGED rejections
  /\ UNCHANGED <<monero, solana, profile, addsLeft, accepted, db, moneroInstance, nodeReady, chainActive, obs>>

\* sendEcoWithdrawalFailedEmail with error.message as the reason
CatchFailedEmail(f) ==
  LET id == flow[f].id IN
  /\ flow[f].pc = "c_email"
  /\ \/ Fault /\ Rejects(f, EmailError) /\ UNCHANGED failEmails
     \/ /\ Ok
        /\ failEmails' = [failEmails EXCEPT ![id] = Append(@, flow[f].err)]
        /\ Goto(f, "c_notify")
        /\ UNCHANGED rejections
  /\ UNCHANGED <<monero, solana, profile, addsLeft, accepted, db, moneroInstance, nodeReady, chainActive, transferCalls, invoked, claims, claimMisses,
                 broadcast,
                 refunds, confirmEmails, notifications, adminProfits>>

\* handleNotification("Withdrawal Failed")
CatchNotify(f) ==
  LET id == flow[f].id IN
  /\ flow[f].pc = "c_notify"
  /\ \/ Fault /\ Rejects(f, NotifyError) /\ UNCHANGED notifications
     \/ /\ Ok
        /\ notifications' = [notifications EXCEPT ![id] = @ + 1]
        /\ Finally(f)
        /\ UNCHANGED rejections
  /\ UNCHANGED <<monero, solana, profile, addsLeft, accepted, db, moneroInstance, nodeReady, chainActive, transferCalls, invoked, claims, claimMisses,
                 broadcast,
                 refunds, confirmEmails, failEmails, adminProfits>>

\* ------------------------------------------------------- specifications
\* ------------------------------------------- MoneroService: the wallet ops
Remove(s, x) == SelectSeq(s, LAMBDA y : y # x)

\* what the server answers, given the wallet it has open: get_transfers
\* lists the chain transaction with its confirmations, get_transfer_by_txid
\* finds it, transfer returns a tx_hash
Answer(m, method) ==
  CASE method = "get_transfers" ->
         IF m.open.wallet # PaidWallet THEN NoTransfers
         ELSE m.confirmations
    [] method = "get_transfer_by_txid" ->
         IF m.open.wallet = PaidWallet THEN "found" ELSE "none"
    [] method = "transfer" ->
         IF m.open.wallet # "none" THEN "tx_hash" ELSE "error"

\* processQueue calls the operation: open_wallet or close_wallet reaches the
\* server; open_wallet opens the wallet, or fails (the file of the
\* withdrawal's wallet is lost) and leaves no wallet open
Serve(m, op) ==
  [m EXCEPT !.running = op,
            !.executing = @ + 1,
            !.open = IF /\ op.kind = "open_wallet"
                        /\ ~(op.by = WithdrawalTask /\ m.walletFileLost)
                     THEN [wallet |-> op.wallet, by |-> op.by]
                     ELSE NoSession]

\* task t issues a request, which the server answers from the wallet it has
\* open, and awaits the answer
Call(m, t, method) ==
  IF method = "get_transfers"
  THEN [m EXCEPT !.task[t].pc = method, !.task[t].seen = Answer(m, method)]
  ELSE [m EXCEPT !.task[t].pc = method, !.task[t].res = Answer(m, method)]

\* variant: the retry is scheduled whether or not the wallet is monitored
ContinueIgnoresUnmonitor(m, t, kind) ==
  LET w == m.task[t].wallet
      n == m.task[t].retryCount + 1
  IN
  IF kind = "open_wallet"
  THEN Call(m, t, IF t = WithdrawalTask THEN "transfer" ELSE "get_transfers")
  ELSE IF t = WithdrawalTask THEN [m EXCEPT !.task[t].pc = "done"]
  ELSE IF n < MaxRetries
  THEN [m EXCEPT !.task[t].retryCount = n, !.task[t].pc = "timer"]
  ELSE [m EXCEPT !.task[t].retryCount = n, !.task[t].pc = "done",
                 !.monitoredWallets = Remove(@, w)]

\* openWallet or closeWallet has returned to task t. After openWallet the
\* withdrawal issues transfer and a loop issues get_transfers; after
\* closeWallet the withdrawal is over and a loop counts the cycle, then sets
\* the timer, or stops (unmonitoring the wallet at maxRetries)
Continue(m, t, kind) ==
  LET w == m.task[t].wallet
      n == m.task[t].retryCount + 1
  IN
  IF kind = "open_wallet"
  THEN Call(m, t, IF t = WithdrawalTask THEN "transfer" ELSE "get_transfers")
  ELSE IF t = WithdrawalTask THEN [m EXCEPT !.task[t].pc = "done"]
  ELSE IF n < MaxRetries /\ Includes(m.monitoredWallets, w)
  THEN [m EXCEPT !.task[t].retryCount = n, !.task[t].pc = "timer"]
  ELSE [m EXCEPT !.task[t].retryCount = n, !.task[t].pc = "done",
                 !.monitoredWallets =
                    IF n >= MaxRetries THEN Remove(@, w) ELSE @]

\* openWallet/closeWallet through addToQueue: the operation is pushed; when
\* processQueue is already running the call returns at once, otherwise the
\* caller runs processQueue, which starts the operation
\* variant: addToQueue runs processQueue whether or not one is running
AddToQueueAlwaysDrains(m, t, kind) ==
  LET op == [kind |-> kind, wallet |-> m.task[t].wallet, by |-> t]
      pend == Append(m.queue, op)
  IN
  Serve([m EXCEPT !.processing = TRUE, !.queue = Tail(pend),
                  !.task[t].pc = "drain", !.task[t].next = kind],
        Head(pend))

AddToQueue(m, t, kind) ==
  LET op == [kind |-> kind, wallet |-> m.task[t].wallet, by |-> t]
      pend == Append(m.queue, op)
  IN
  IF m.processing
  THEN Continue([m EXCEPT !.queue = pend], t, kind)
  ELSE Serve([m EXCEPT !.processing = TRUE, !.queue = Tail(pend),
                       !.task[t].pc = "drain", !.task[t].next = kind],
             Head(pend))

\* processMonitoredWallets: a loop is started for every monitored wallet
RECURSIVE StartLoops(_, _)
StartLoops(m, ws) ==
  IF ws = <<>> THEN m
  ELSE LET t == m.loops + 1
           m1 == [m EXCEPT !.loops = t,
                           !.task[t] = [IdleTask EXCEPT !.wallet = Head(ws)]]
       IN StartLoops(AddToQueue(m1, t, "open_wallet"), Tail(ws))

\* everything of the withdrawal queue
qside == <<queue, isProcessing, processingTransactions, flow, profile, db,
           moneroInstance, nodeReady, chainActive, addsLeft, accepted,
           transferCalls, invoked, claims, claimMisses, broadcast, refunds,
           confirmEmails, failEmails, notifications, adminProfits, faults,
           rejections>>

\* monitorMoneroDeposits(wallet) for a wallet that is not monitored
MonitorMoneroDeposits(w) ==
  LET ws == Append(monero.monitoredWallets, w)
      m1 == [monero EXCEPT !.calls = @ - 1, !.monitoredWallets = ws]
  IN
  /\ monero.calls > 0
  /\ ~Includes(monero.monitoredWallets, w)
  /\ monero.loops + Len(ws) <= MaxLoops
  /\ monero' = StartLoops(m1, ws)
  /\ UNCHANGED <<qside, solana>>

\* handleMoneroWithdrawal up to its first await, inside openWallet; the
\* file of its wallet is there, or is lost
WalletWithdrawal(w) ==
  /\ monero.calls > 0
  /\ monero.task[WithdrawalTask].pc = "idle"
  /\ \E lost \in BOOLEAN :
       monero' = AddToQueue(
         [monero EXCEPT !.calls = @ - 1,
                        !.walletFileLost = lost,
                        !.task[WithdrawalTask].wallet = w],
         WithdrawalTask, "open_wallet")
  /\ UNCHANGED <<qside, solana>>

\* the operation processQueue awaits has thrown
Threw(m) ==
  /\ m.running.kind = "open_wallet"
  /\ m.running.by = WithdrawalTask
  /\ m.walletFileLost

\* variant: no try/catch around the operation, so one that throws ends
\* processQueue with the flag reset and the later operations left queued
ProcessQueueStopsOnError ==
  LET d == CHOOSE t \in Tasks : monero.task[t].pc = "drain" IN
  /\ monero.running # NoOp
  /\ monero' =
       IF monero.queue # <<>> /\ ~Threw(monero)
       THEN Serve([monero EXCEPT !.queue = Tail(@), !.executing = @ - 1],
                  Head(monero.queue))
       ELSE Continue([monero EXCEPT !.processing = FALSE, !.running = NoOp,
                                    !.executing = @ - 1],
                     d, monero.task[d].next)
  /\ UNCHANGED <<qside, solana>>

\* the answer to the operation processQueue awaits arrives (an error is only
\* logged); the next operation is started, or the queue is empty and the
\* caller that ran processQueue goes on
ProcessQueue ==
  LET d == CHOOSE t \in Tasks : monero.task[t].pc = "drain" IN
  /\ monero.running # NoOp
  /\ monero' =
       IF monero.queue # <<>>
       THEN Serve([monero EXCEPT !.queue = Tail(@), !.executing = @ - 1],
                  Head(monero.queue))
       ELSE Continue([monero EXCEPT !.processing = FALSE, !.running = NoOp,
                                    !.executing = @ - 1],
                     d, monero.task[d].next)
  /\ UNCHANGED <<qside, solana>>

\* the timer of a loop fires: checkWalletForDeposits calls openWallet
TimerFires(t) ==
  /\ monero.task[t].pc = "timer"
  /\ monero' = AddToQueue(monero, t, "open_wallet")
  /\ UNCHANGED <<qside, solana>>

\* get_transfers has answered: a transaction with minConfirmations that is
\* not in processedTransactions goes to processMoneroTransaction, which
\* looks for a COMPLETED record; otherwise the loop closes the wallet.
\* Or the request has failed: the catch block of checkWalletForDeposits logs
\* the error and the loop is over
TransfersAnswered(t) ==
  /\ monero.task[t].pc = "get_transfers"
  /\ \/ monero' =
          IF /\ monero.task[t].seen # NoTransfers
             /\ "T" \notin monero.processedTransactions
             /\ IsConfirmed(monero.task[t].seen)
          THEN [monero EXCEPT !.task[t].pc = "findOne"]
          ELSE AddToQueue(monero, t, "close_wallet")
     \/ monero' = [monero EXCEPT !.task[t].pc = "stopped"]
  /\ UNCHANGED <<qside, solana>>

\* processMoneroTransaction catches an exception and returns false: the
\* loop goes on to closeWallet
ReturnsFalse(m, t) == AddToQueue(m, t, "close_wallet")

\* findOne({referenceId, status: COMPLETED}) has answered, or has thrown
ExistingAnswered(t) ==
  /\ monero.task[t].pc = "findOne"
  /\ \/ monero' =
          IF monero.deposits["T"] > 0
          THEN AddToQueue(
                 [monero EXCEPT !.processedTransactions = @ \cup {"T"}],
                 t, "close_wallet")
          ELSE Call(monero, t, "get_transfer_by_txid")
     \/ monero' = ReturnsFalse(monero, t)
  /\ UNCHANGED <<qside, solana>>

\* get_transfer_by_txid has answered: the transfer is handed to
\* storeAndBroadcastTransaction, or it is unknown and the wallet is closed
TransferInfoAnswered(t) ==
  /\ monero.task[t].pc = "get_transfer_by_txid"
  /\ \/ monero' =
          IF monero.task[t].res = "found"
          THEN [monero EXCEPT !.task[t].pc = "store"]
          ELSE AddToQueue(monero, t, "close_wallet")
     \/ monero' = ReturnsFalse(monero, t)
  /\ UNCHANGED <<qside, solana>>

\* storeAndBroadcastTransaction creates the deposit record
StoreAndBroadcastTransaction(deposits, txid) ==
  [deposits EXCEPT ![txid] = @ + 1]

\* the store has returned: the id joins processedTransactions, the wallet is
\* unmonitored and closed. Or the store has thrown, with the record written
\* or not
Stored(t) ==
  /\ monero.task[t].pc = "store"
  /\ \/ monero' =
          AddToQueue(
            [monero EXCEPT
               !.deposits = StoreAndBroadcastTransaction(@, "T"),
               !.processedTransactions = @ \cup {"T"},
               !.monitoredWallets = Remove(@, monero.task[t].wallet)],
            t, "close_wallet")
     \/ monero' = ReturnsFalse(monero, t)
     \/ monero' =
          ReturnsFalse(
            [monero EXCEPT !.deposits = StoreAndBroadcastTransaction(@, "T")],
            t)
  /\ UNCHANGED <<qside, solana>>

\* transfer has answered with a tx_hash and COMPLETED is written; or it has
\* answered without one, or thrown, and the catch block writes FAILED
TransferAnswered ==
  /\ monero.task[WithdrawalTask].pc = "transfer"
  /\ \/ /\ monero.task[WithdrawalTask].res = "tx_hash"
        /\ monero' = [monero EXCEPT !.task[WithdrawalTask].pc = "writeC"]
     \/ monero' = [monero EXCEPT !.task[WithdrawalTask].pc = "writeF"]
  /\ UNCHANGED <<qside, solana>>

\* variant: closeWallet is the last statement of the try block and of the
\* catch block, so a status write that throws skips it
StatusWrittenNoFinally ==
  LET t == WithdrawalTask IN
  /\ monero.task[t].pc \in {"writeC", "writeF"}
  /\ \/ monero' = AddToQueue(monero, t, "close_wallet")
     \/ /\ monero.task[t].pc = "writeC"
        /\ monero' = [monero EXCEPT !.task[t].pc = "writeF"]
     \/ /\ monero.task[t].pc = "writeF"
        /\ monero' = [monero EXCEPT !.task[t].pc = "done"]
  /\ UNCHANGED <<qside, solana>>

\* the status write has returned, or thrown: a COMPLETED write that throws
\* leads to the catch block; after the FAILED write, thrown or not, and
\* after resolve() the finally block calls closeWallet
StatusWritten ==
  LET t == WithdrawalTask IN
  /\ monero.task[t].pc \in {"writeC", "writeF"}
  /\ \/ monero' = AddToQueue(monero, t, "close_wallet")
     \/ /\ monero.task[t].pc = "writeC"
        /\ monero' = [monero EXCEPT !.task[t].pc = "writeF"]
  /\ UNCHANGED <<qside, solana>>

\* the chain transaction gets one more confirmation, up to minConfirmations
Confirm ==
  /\ monero.confirmations < MinConfirmations
  /\ monero' = [monero EXCEPT !.confirmations = @ + 1]
  /\ UNCHANGED <<qside, solana>>

\* unmonitorMoneroDeposits(walletId), called from outside the loops
UnmonitorMoneroDeposits(w) ==
  /\ monero.calls > 0
  /\ Includes(monero.monitoredWallets, w)
  /\ monero' = [monero EXCEPT !.calls = @ - 1,
                              !.monitoredWallets = Remove(@, w)]
  /\ UNCHANGED <<qside, solana>>

WalletNext ==
  \/ \E w \in Wallets : MonitorMoneroDeposits(w)
  \/ \E w \in Wallets : WalletWithdrawal(w)
  \/ ProcessQueue
  \/ \E t \in Loops : TimerFires(t)
  \/ \E t \in Loops : TransfersAnswered(t)
  \/ \E t \in Loops : ExistingAnswered(t)
  \/ \E t \in Loops : TransferInfoAnswered(t)
  \/ \E t \in Loops : Stored(t)
  \/ TransferAnswered
  \/ StatusWritten
  \/ Confirm
  \/ \E w \in Wallets : UnmonitorMoneroDeposits(w)

\* ---------------------------------------------------- Solana deposit watch
\* monitorSolanaDeposits(wallet, address): the inactivity timer is set, then
\* onLogs registers the callback and returns the subscription id, or throws
MonitorSolanaDeposits(a) ==
  /\ solana[a].timer = "none"
  /\ \/ solana' = [solana EXCEPT ![a].timer = "armed",
                                 ![a].listening = TRUE,
                                 ![a].logsSubscriptionId = FirstSubscriptionId]
     \/ solana' = [solana EXCEPT ![a].timer = "armed"]
  /\ UNCHANGED <<qside, monero>>

\* connection.removeOnLogsListener(id): the connection drops the callback
\* when it is called, and answers later
RemoveOnLogsListener(w) == [w EXCEPT !.listening = FALSE]

\* variant: the timeout handler forgets the id without removing the listener
TimeoutForgets(a) ==
  /\ solana[a].timer = "armed"
  /\ solana' = [solana EXCEPT ![a].timer = "fired",
                              ![a].logsSubscriptionId = Null]
  /\ UNCHANGED <<qside, monero>>

\* the inactivity timer fires (no log event has cleared it): the listener
\* is removed when there is a subscription
TimeoutFires(a) ==
  /\ solana[a].timer = "armed"
  /\ solana' =
       IF solana[a].logsSubscriptionId # Null
       THEN [solana EXCEPT ![a] = [RemoveOnLogsListener(@) EXCEPT
                                     !.timer = "fired",
                                     !.closing = @ + 1]]
       ELSE [solana EXCEPT ![a].timer = "fired"]
  /\ UNCHANGED <<qside, monero>>

\* the chain emits a log for the address. A registered callback clears the
\* timer and, when the log has a signature, calls trackTransactionSignature;
\* without a listener nothing is called
LogEvent(a) ==
  LET e == solana[a].events + 1 IN
  /\ solana[a].events < MaxEvents
  /\ \E signed \in BOOLEAN :
       solana' =
         IF solana[a].listening
         THEN [solana EXCEPT
                 ![a].events = e,
                 ![a].timer = IF @ = "armed" THEN "cleared" ELSE @,
                 ![a].tracking = IF signed THEN @ + 1 ELSE @,
                 ![a].track[e].pc = IF signed THEN "lookup" ELSE @]
         ELSE [solana EXCEPT ![a].events = e, ![a].late = @ + 1]
  /\ UNCHANGED <<qside, monero>>

\* trackTransactionSignature returns from its call for event e: it has
\* stored the deposit and removed the listener, or it has given up
\* (transaction not found, nothing received, an exception). The callback
\* then removes the listener when logsSubscriptionId is not null
TrackEnds(w, e, stored) ==
  LET w1 == [w EXCEPT !.tracking = @ - 1, !.track[e] = NoTrack]
      w2 == IF stored
            THEN [RemoveOnLogsListener(w1) EXCEPT !.deposits = @ + 1]
            ELSE w1
  IN IF w2.logsSubscriptionId # Null
     THEN [RemoveOnLogsListener(w2) EXCEPT !.closing = @ + 1]
     ELSE w2

\* variant: the test of the balance difference is missing
IsDepositAnyAmount(tx) ==
  IF ~tx.meta THEN FALSE
  ELSE IF ~tx.keyed THEN FALSE
  ELSE TRUE

\* the tests between the lookup and the store: meta is there, the address
\* is among the account keys, and `balanceDifference <= 0` does not hold
IsDeposit(tx) ==
  IF ~tx.meta THEN FALSE
  ELSE IF ~tx.keyed THEN FALSE
  ELSE IF tx.post - tx.pre <= 0 THEN FALSE
  ELSE TRUE

\* getTransaction has answered: with a transaction, which ends the retry
\* loop and is stored when it passes the tests; or with null or an
\* exception, which counts a retry and starts the pause
GetTransactionAnswered(a, e) ==
  /\ solana[a].track[e].pc = "lookup"
  /\ \/ \E tx \in Transactions :
          solana' =
            IF IsDeposit(tx)
            THEN [solana EXCEPT ![a].track[e].pc = "store",
                                ![a].track[e].tx = tx]
            ELSE [solana EXCEPT ![a] = TrackEnds(@, e, FALSE)]
     \/ solana' = [solana EXCEPT ![a].track[e].pc = "sleep",
                                 ![a].track[e].retries = @ + 1]
  /\ UNCHANGED <<qside, monero>>

\* `while (retries < maxRetries)`
RetriesLeft(retries) == retries < MaxLookups

\* the pause is over: the next lookup is made, or the retries are used up
\* and the call returns
SleepEnds(a, e) ==
  /\ solana[a].track[e].pc = "sleep"
  /\ solana' =
       IF RetriesLeft(solana[a].track[e].retries)
       THEN [solana EXCEPT ![a].track[e].pc = "lookup"]
       ELSE [solana EXCEPT ![a] = TrackEnds(@, e, FALSE)]
  /\ UNCHANGED <<qside, monero>>

\* storeAndBroadcastTransaction has returned, and the call removes the
\* listener; or it has thrown
StoreAnswered(a, e) ==
  /\ solana[a].track[e].pc = "store"
  /\ \E stored \in BOOLEAN :
       solana' = [solana EXCEPT ![a] = TrackEnds(@, e, stored)]
  /\ UNCHANGED <<qside, monero>>

\* removeOnLogsListener has answered: logsSubscriptionId = null
ListenerRemoved(a) ==
  /\ solana[a].closing > 0
  /\ solana' = [solana EXCEPT ![a].closing = @ - 1,
                              ![a].logsSubscriptionId = Null]
  /\ UNCHANGED <<qside, monero>>

WatchNext ==
  \/ \E a \in Addresses : MonitorSolanaDeposits(a)
  \/ \E a \in Addresses : TimeoutFires(a)
  \/ \E a \in Addresses : LogEvent(a)
  \/ \E a \in Addresses, e \in 1..MaxEvents : GetTransactionAnswered(a, e)
  \/ \E a \in Addresses, e \in 1..MaxEvents : SleepEnds(a, e)
  \/ \E a \in Addresses, e \in 1..MaxEvents : StoreAnswered(a, e)
  \/ \E a \in Addresses : ListenerRemoved(a)

\* a timer that is armed fires, and the RPC node, the store and the 5 s
\* pause answer; nothing obliges the chain to emit a log for the address
WatchStep ==
  \/ \E a \in Addresses : TimeoutFires(a)
  \/ \E a \in Addresses, e \in 1..MaxEvents : GetTransactionAnswered(a, e)
  \/ \E a \in Addresses, e \in 1..MaxEvents : SleepEnds(a, e)
  \/ \E a \in Addresses, e \in 1..MaxEvents : StoreAnswered(a, e)
  \/ \E a \in Addresses : ListenerRemoved(a)

WatchFairness == WF_vars(WatchStep)

\* the wallet service alone: nothing is handed to the withdrawal queue
InitWallet ==
  /\ InitTable({1}, {1})
  /\ AllReady
  /\ addsLeft = [q \in Queues |-> 0]

WalletSpec == InitWallet /\ [][WalletNext]_vars

\* the Solana deposit watches alone
WatchSpec == InitWallet /\ [][WatchNext]_vars

FairWatchSpec == WatchSpec /\ WatchFairness

\* the wallet service with deposits monitored on the paid wallet only, next
\* to a withdrawal from any wallet
PaidNext ==
  \/ MonitorMoneroDeposits(PaidWallet)
  \/ \E w \in Wallets : WalletWithdrawal(w)
  \/ ProcessQueue
  \/ \E t \in Loops : TimerFires(t)
  \/ \E t \in Loops : TransfersAnswered(t)
  \/ \E t \in Loops : ExistingAnswered(t)
  \/ \E t \in Loops : TransferInfoAnswered(t)
  \/ \E t \in Loops : Stored(t)
  \/ TransferAnswered
  \/ StatusWritten
  \/ Confirm
  \/ UnmonitorMoneroDeposits(PaidWallet)

PaidSpec == InitWallet /\ [][PaidNext]_vars

\* the wallet RPC server, the database and the store answer every request
\* (with a result or an error) and a timer that was set fires; nothing
\* obliges anybody to call monitorMoneroDeposits, unmonitorMoneroDeposits or
\* handleMoneroWithdrawal, or the chain to confirm a transaction
LoopStep(t) ==
  \/ TimerFires(t)
  \/ TransfersAnswered(t)
  \/ ExistingAnswered(t)
  \/ TransferInfoAnswered(t)
  \/ Stored(t)

ServiceStep ==
  \/ ProcessQueue
  \/ TransferAnswered
  \/ StatusWritten
  \/ \E t \in Loops : LoopStep(t)

WalletFairness == WF_vars(ServiceStep)

FairPaidSpec == PaidSpec /\ WalletFairness

\* the wallet service while the inbound transfer of the paid wallet stays
\* below minConfirmations and nobody unmonitors: a deposit loop polls next
\* to a withdrawal from any wallet
PendingNext ==
  \/ MonitorMoneroDeposits(PaidWallet)
  \/ \E w \in Wallets : WalletWithdrawal(w)
  \/ ProcessQueue
  \/ \E t \in Loops : TimerFires(t)
  \/ \E t \in Loops : TransfersAnswered(t)
  \/ TransferAnswered
  \/ StatusWritten

PendingSpec == InitWallet /\ [][PendingNext]_vars

FairPendingSpec == PendingSpec /\ WalletFairness

\* the deposit monitor alone, on the paid wallet, no withdrawal being made
MonitorNext ==
  \/ MonitorMoneroDeposits(PaidWallet)
  \/ UnmonitorMoneroDeposits(PaidWallet)
  \/ ProcessQueue
  \/ \E t \in Loops : TimerFires(t)
  \/ \E t \in Loops : TransfersAnswered(t)
  \/ \E t \in Loops : ExistingAnswered(t)
  \/ \E t \in Loops : TransferInfoAnswered(t)
  \/ \E t \in Loops : Stored(t)
  \/ Confirm

MonitorSpec == InitWallet /\ [][MonitorNext]_vars

FairMonitorSpec == MonitorSpec /\ WalletFairness

Step(f) ==
  \/ LoadTransaction(f)
  \/ ClaimTransaction(f)
  \/ SolSend(f)
  \/ SolStatus(f)
  \/ SolWriteCompleted(f)
  \/ SolWriteFailed(f)
  \/ MoneroGetInstance(f)
  \/ MoneroTransfer(f)
  \/ MoneroWriteCompleted(f)
  \/ MoneroWriteFailed(f)
  \/ QueueFindUser(f)
  \/ QueueConfirmEmail(f)
  \/ QueueAdminProfit(f)
  \/ CatchWriteFailed(f)
  \/ CatchFind(f)
  \/ CatchRefund(f)
  \/ CatchFindUser(f)
  \/ CatchFailedEmail(f)
  \/ CatchNotify(f)

Next ==
  \/ \E q \in Queues, id \in Ids : AddTransaction(q, id)
  \/ \E f \in FlowIds : Step(f)

Spec == Init /\ [][Next]_vars

\* TronService.getInstance(), then handleTronWithdrawal is called: like the
\* other services the instance is made on first use, which may fail
TronGetInstance(f) ==
  LET id == flow[f].id IN
  /\ flow[f].pc = "tron_instance"
  /\ \/ /\ Ok
        /\ transferCalls' = [transferCalls EXCEPT ![id] = @ + 1]
        /\ invoked' = [invoked EXCEPT ![id] = Append(@, CallOf(id))]
        /\ Goto(f, "ext_transfer")
     \/ /\ Fault
        /\ Catch(f, ProbeError)
        /\ UNCHANGED <<transferCalls, invoked>>
  /\ UNCHANGED <<monero, solana, rejections, profile, nodeReady, addsLeft, accepted,
                 db, moneroInstance, chainActive, claims, claimMisses,
                 broadcast, refunds, confirmEmails, failEmails,
                 notifications, adminProfits>>

\* handleUTXOWithdrawal, handleTronWithdrawal or handleEvmWithdrawal ends:
\* it returns with the transfer broadcast and the record completed, or it
\* throws
ExternalTransfer(f) ==
  LET id == flow[f].id IN
  /\ flow[f].pc = "ext_transfer"
  /\ \/ /\ broadcast' = [broadcast EXCEPT ![id] = @ \cup {Sig(id)}]
        /\ db' = WriteCompleted(id, Sig(id))
        /\ Goto(f, "q_user")
     \/ /\ Catch(f, BackendError)
        /\ UNCHANGED <<db, broadcast>>
  /\ UNCHANGED <<monero, solana, rejections, profile, nodeReady, addsLeft, accepted,
                 moneroInstance, chainActive, transferCalls, invoked, claims,
                 claimMisses, refunds, confirmEmails, failEmails,
                 notifications, adminProfits, faults>>

\* one process runs the queue and is handed one id, whose row names any
\* chain or none
InitDispatch ==
  /\ InitTable({1}, 1..Len(AllProfiles))
  /\ AllReady
  /\ addsLeft = [q \in Queues |-> IF q = "A" THEN MaxAdds ELSE 0]

DispatchNext ==
  \/ \E q \in Queues, id \in Ids : AddTransaction(q, id)
  \/ \E f \in FlowIds : Step(f)
  \/ \E f \in FlowIds : TronGetInstance(f)
  \/ \E f \in FlowIds : ExternalTransfer(f)

DispatchSpec == InitDispatch /\ [][DispatchNext]_vars

RaceSpec == InitRace /\ [][Next]_vars

ChainSpec == InitChain /\ [][Next]_vars

FifoSpec == InitFifo /\ [][Next]_vars

\* the runs in which the database and the other collaborators never throw
\* (a chain may still fail or reject a transfer)
QuietNext ==
  \/ \E q \in Queues, id \in Ids : AddTransaction(q, id)
  \/ \E f \in FlowIds : LoadTransaction(f) /\ Ok
  \/ \E f \in FlowIds : ClaimTransaction(f) /\ Ok
  \/ \E f \in FlowIds : SolSend(f) /\ Ok
  \/ \E f \in FlowIds : SolStatus(f) /\ Ok
  \/ \E f \in FlowIds : SolWriteCompleted(f) /\ Ok
  \/ \E f \in FlowIds : SolWriteFailed(f) /\ Ok
  \/ \E f \in FlowIds : MoneroGetInstance(f) /\ Ok
  \/ \E f \in FlowIds : MoneroTransfer(f) /\ Ok
  \/ \E f \in FlowIds : MoneroWriteCompleted(f) /\ Ok
  \/ \E f \in FlowIds : MoneroWriteFailed(f) /\ Ok
  \/ \E f \in FlowIds : QueueFindUser(f) /\ Ok
  \/ \E f \in FlowIds : QueueConfirmEmail(f) /\ Ok
  \/ \E f \in FlowIds : QueueAdminProfit(f) /\ Ok
  \/ \E f \in FlowIds : CatchWriteFailed(f) /\ Ok
  \/ \E f \in FlowIds : CatchFind(f) /\ Ok
  \/ \E f \in FlowIds : CatchRefund(f) /\ Ok
  \/ \E f \in FlowIds : CatchFindUser(f) /\ Ok
  \/ \E f \in FlowIds : CatchFailedEmail(f) /\ Ok
  \/ \E f \in FlowIds : CatchNotify(f) /\ Ok

QuietSpec == Init /\ [][QuietNext]_vars

\* every call a flow awaits returns or throws, so a flow that can resume
\* does resume
Fairness == \A f \in FlowIds : WF_vars(Step(f))

FairSpec == Spec /\ Fairness

\* one process runs the queue and is handed two ids, each with any of the
\* rows
InitPair ==
  /\ InitTable({1, 2}, 1..Len(Profiles))
  /\ AllReady
  /\ addsLeft = [q \in Queues |-> IF q = "A" THEN MaxAdds ELSE 0]

\* some flow that can resume does resume
AnyStep == \E f \in FlowIds : Step(f)

FairPairSpec == InitPair /\ [][Next]_vars /\ WF_vars(AnyStep)

TypeOK ==
  /\ \A q \in Queues : isProcessing[q] \in BOOLEAN
  /\ \A id \in Ids : db[id].status \in
        {"ABSENT", "PENDING", "PROCESSING", "COMPLETED", "FAILED"}

\* ------------------------------------------------------------ properties
\* pcs of a flow that is inside handleSolanaWithdrawal/handleMoneroWithdrawal
BackendPcs == {"sol_send", "sol_status", "sol_writeC",
               "sol_writeF", "xmr_transfer", "xmr_writeC", "xmr_writeF",
               "hung"}

FlowsOn(id) == {f \in FlowIds : flow[f].id = id}

\* no coordinator holds id any more, queued or in flight
Settled(id) ==
  /\ FlowsOn(id) = {}
  /\ \A q \in Queues : ~Includes(queue[q], id)

\* the row is PENDING when it is first enqueued and its metadata names a chain
Eligible(id) == profile[id].exists /\ profile[id].meta \in {"SOL", "XMR"}

C2_SingleWinner ==
  \A id \in Ids :
    /\ claims[id] <= 1
    /\ Cardinality({f \in FlowsOn(id) : flow[f].pc \in BackendPcs}) <= 1
    /\ transferCalls[id] <= claims[id]

\* a second flow lost the claim while the winner was still inside the backend
C2_Witness ==
  \E id \in Ids :
    /\ claims[id] = 1 /\ claimMisses[id] >= 1
    /\ \E f \in FlowsOn(id) : flow[f].pc \in BackendPcs

\* C3: a coordinator has at most one id in flight and at most one running
\* activation of processNext, and that activation works on the in-flight id.
C3_SingleFlight ==
  \A q \in Queues :
    /\ Cardinality(processingTransactions[q]) <= 1
    /\ Cardinality({f \in FlowsOf(q) : Active(f)}) <= 1
    /\ \A f \in FlowsOf(q) :
         Active(f) => processingTransactions[q] = {flow[f].id}

\* an id waits in the pending list while the backend works on another one
C3_Witness ==
  \E q \in Queues :
    /\ queue[q] # <<>>
    /\ \E f \in FlowsOf(q) : flow[f].pc \in BackendPcs

\* C4: a call addTransaction(id) with id in flight or in the pending list
\* leaves the pending list, the in-flight set, isProcessing and every
\* activation of processNext as they were.
C4_AddIsNoop ==
  [][\A q \in Queues, id \in Ids :
       (/\ AddTransaction(q, id)
        /\ \/ id \in processingTransactions[q]
           \/ \E i \in 1..Len(queue[q]) : queue[q][i] = id)
       => UNCHANGED <<queue, isProcessing, processingTransactions, flow>>]_vars

\* one id is in flight and another one waits in the pending list of the same
\* coordinator, after an id was accepted a second time: calls for either id
\* are made here and change nothing
C4_Witness ==
  /\ \E q \in Queues : queue[q] # <<>> /\ processingTransactions[q] # {}
  /\ \E id \in Ids : accepted[id] >= 2

\* the step is the one in which flow f leaves processNext (its finally block)
Ended(f) == Active(f) /\ flow[f].id \notin processingTransactions'[f[1]]

\* C5 as stated: a flow whose backend transfer raised ends with the row
\* FAILED, a description carrying the backend's message, and one refund of
\* the row's amount.
C5_FailedAndRefunded ==
  [][\A f \in FlowIds :
       (Ended(f) /\ flow[f].backend \in BackendErrors)
       => LET id == flow[f].id IN
          /\ db'[id].status = "FAILED"
          /\ db'[id].description.msg = flow[f].backend
          /\ refunds'[id] = <<profile[id].amount>>]_vars

\* C6 as stated: a flow whose backend transfer returned a signature ends
\* with the row COMPLETED, referenceId the signature, and one confirmation
\* email queued.
C6_CompletedAndNotified ==
  [][\A f \in FlowIds :
       (Ended(f) /\ flow[f].backend = "ok")
       => LET id == flow[f].id IN
          /\ db'[id].status = "COMPLETED"
          /\ db'[id].referenceId = Sig(id)
          /\ confirmEmails'[id] = 1]_vars

\* C7 as stated: the status of a row changes only PENDING -> PROCESSING,
\* PROCESSING -> COMPLETED or PROCESSING -> FAILED.
C7_AllowedTransitions ==
  [][\A id \in Ids :
       db'[id].status # db[id].status
       => <<db[id].status, db'[id].status>> \in
            { <<"PENDING", "PROCESSING">>,
              <<"PROCESSING", "COMPLETED">>,
              <<"PROCESSING", "FAILED">> }]_vars

\* C8: a row that is COMPLETED or FAILED is never PENDING or PROCESSING
\* again.
C8_TerminalStays ==
  [][\A id \in Ids :
       db[id].status \in {"COMPLETED", "FAILED"}
       => db'[id].status \notin {"PENDING", "PROCESSING"}]_vars

\* a FAILED row was enqueued again and its conditional update hit nothing
C8_Witness ==
  \E id \in Ids :
    /\ db[id].status = "FAILED"
    /\ accepted[id] >= 2 /\ claimMisses[id] >= 1

\* C9 as stated: a row is PROCESSING only while a flow that can still go on
\* works on its id.
C9_NeverLeftProcessing ==
  \A id \in Ids :
    db[id].status = "PROCESSING"
    => \E f \in FlowsOn(id) : flow[f].pc # AfterExecutorThrow

\* C10 as stated: an id in the in-flight set of a coordinator is eventually
\* removed from it.
C10_EventuallyReleased ==
  \A q \in Queues, id \in 1..NumIds :
    (id \in processingTransactions[q]) ~> (id \notin processingTransactions[q])

\* the activations of processNext of coordinator q that begin in this step
\* (an activation begins suspended at findOne)
Started(q) ==
  {f \in FlowsOf(q) : flow'[f].pc = "findOne" /\ flow'[f] # flow[f]}

\* C11: ids start processing in the order they were accepted.  In every
\* step the pending list of a coordinator only grows at its end; an
\* activation of processNext begins only on the oldest pending id, which
\* then leaves the list with the others keeping their order, and only when
\* no other activation of the coordinator is still running.
C11_Fifo ==
  [][\A q \in Queues :
       \E ext \in {<<>>} \cup {<<x>> : x \in Ids} :
         LET pend == queue[q] \o ext IN
         IF Started(q) = {}
         THEN queue'[q] = pend
         ELSE /\ pend # <<>>
              /\ \A f \in Started(q) : flow'[f].id = Head(pend)
              /\ queue'[q] = Tail(pend)
              /\ Cardinality({f \in FlowsOf(q) : flow'[f].pc # "idle"}) = 1
    ]_vars

\* two ids wait, in the order they were accepted, behind the id in flight
C11_Witness ==
  \E q \in Queues :
    /\ Len(queue[q]) >= 2
    /\ \E f \in FlowsOf(q) : Active(f)

\* C12 as stated: a flow whose backend transfer returned ends with exactly
\* one adminProfit row for its id when the fee is greater than zero, with the
\* fee as amount, the wallet's currency, the chain and the id; a flow whose
\* fee is zero, or whose backend transfer raised, ends with none.
C12_AdminProfit ==
  [][\A f \in FlowIds :
       (Ended(f) /\ flow[f].backend # "none")
       => LET id == flow[f].id IN
          adminProfits'[id] =
            IF flow[f].backend = "ok" /\ profile[id].fee > 0
            THEN << [amount |-> profile[id].fee,
                     currency |-> profile[id].currency,
                     chain |-> profile[id].meta,
                     transactionId |-> id] >>
            ELSE <<>>]_vars

\* C13 as stated: when a flow that worked on a row (it did not stop at the
\* lookup or at the conditional update) ends with the row COMPLETED or
\* FAILED, the owner was sent exactly one message (confirmation emails,
\* failure emails and in-app notifications counted together), and for FAILED
\* a failure email that carries the reason.
C13_OneNotification ==
  [][\A f \in FlowIds :
       LET id == flow[f].id IN
       (/\ Ended(f)
        /\ flow[f].pc \notin {"findOne", "claim"}
        /\ db'[id].status \in {"COMPLETED", "FAILED"})
       => /\ confirmEmails'[id] + Len(failEmails'[id]) + notifications'[id] = 1
          /\ db'[id].status = "FAILED"
               => /\ Len(failEmails'[id]) = 1
                  /\ failEmails'[id][1] # NoErr]_vars

\* what processing leaves behind: the table, the calls of the backends and
\* of the refund, mail, notification and ledger collaborators
effects == <<db, transferCalls, invoked, broadcast, refunds, confirmEmails, failEmails,
             notifications, adminProfits>>

\* flow f takes this step
Moves(f) == Active(f) /\ flow'[f] # flow[f]

C20_MissAbandoned ==
  [][\A f \in FlowIds :
       (/\ Moves(f) /\ flow[f].pc = "claim" /\ faults' = faults
        /\ db[flow[f].id].status \in {"PROCESSING", "COMPLETED", "FAILED"})
       => Ended(f) /\ UNCHANGED effects]_vars

\* a COMPLETED row was enqueued again and the flow that found it claimed
\* has ended
C20_Witness ==
  \E id \in Ids :
    db[id].status = "COMPLETED" /\ claimMisses[id] >= 1 /\ Settled(id)

\* C17: when getTransaction has answered, transferSol returns the signature
\* exactly when the transaction was found with meta.err null, fails with the
\* chain's error when it was found with meta.err set, and fails as not found
\* or not confirmed when it was not found or has no meta, whether the
\* confirmation wait returned or threw.
C17_StatusDecides ==
  \A f \in FlowIds :
    flow[f].txResult \notin {"none", "threw"}
    => /\ (flow[f].backend = "ok") <=> (flow[f].txResult = "found_ok")
       /\ flow[f].txResult = "found_err" => flow[f].backend = ChainError
       /\ flow[f].txResult \in {"no_meta", "missing"}
            => flow[f].backend = NotConfirmed

\* the confirmation wait threw and the transfer still returned the
\* signature, the transaction being found without error
C17_Witness ==
  \E f \in FlowIds :
    /\ flow[f].wait = "threw" /\ flow[f].txResult = "found_ok"
    /\ flow[f].backend = "ok" /\ flow[f].pc = "sol_writeC"

\* C18 as stated: once a withdrawal is through, its record carries a
\* referenceId exactly when its transfer was broadcast, and the referenceId
\* is then a signature that was broadcast for it.
C18_ReferenceIffBroadcast ==
  \A id \in Ids :
    Settled(id)
    => /\ (db[id].referenceId # NoRef) <=> (broadcast[id] # {})
       /\ db[id].referenceId # NoRef => db[id].referenceId \in broadcast[id]

\* C15 as stated: a withdrawal transfer that runs on a service whose
\* chainActive is false broadcasts nothing to the chain.
C15_FailsClosed ==
  [][\A f \in FlowIds :
       LET c == IF flow[f].pc = "sol_send" THEN "SOL" ELSE "XMR" IN
       (/\ flow[f].pc \in {"sol_send", "xmr_transfer"}
        /\ flow'[f] # flow[f]
        /\ ~chainActive[f[1]][c])
       => broadcast' = broadcast]_vars

\* C14 as stated: no chain transaction id ever has more than one deposit
\* record.
C14_OneRecordPerTx == \A x \in TxIds : monero.deposits[x] <= 1

\* task t sends a request to the wallet RPC server in this step
Issues(t) ==
  /\ monero'.task[t].pc # monero.task[t].pc
  /\ monero'.task[t].pc \in
       {"transfer", "get_transfers", "get_transfer_by_txid"}

\* C16 as stated: the transfer is sent while the wallet of the withdrawal is
\* the one open, opened by the withdrawal's own open_wallet; and while that
\* session lasts the server gets no request and no open_wallet or
\* close_wallet from another call.
C16_ExclusiveSession ==
  [][/\ Issues(WithdrawalTask)
          => monero.open = [wallet |-> monero'.task[WithdrawalTask].wallet,
                            by |-> WithdrawalTask]
     /\ monero.open.by = WithdrawalTask
          => /\ \A t \in Loops : ~Issues(t)
             /\ (monero'.running # monero.running
                   /\ monero'.running # NoOp)
                  => monero'.running.by = WithdrawalTask]_vars


\* ---------------------------------------------------------------------
\* C22: no error raised while processing a withdrawal reaches the caller
\* of addTransaction.  A call of addTransaction that accepts an id is one
\* step in which no collaborator exception occurs and no rejection is
\* produced, and at its end the id is either still queued or its
\* processNext is suspended at its first query: the call has returned
\* before the processing.  Conversely every exception and every rejection
\* happens in a step that is not a call of addTransaction.
AddCall == accepted' # accepted \/ addsLeft' # addsLeft

C22_AddReturns ==
  [][AddCall =>
       /\ faults' = faults
       /\ rejections' = rejections
       /\ \A id \in Ids :
            accepted'[id] > accepted[id] =>
              \E q \in Queues :
                \/ Includes(queue'[q], id)
                \/ \E f \in FlowsOf(q) :
                     flow'[f].id = id /\ flow'[f].pc = "findOne"]_vars

\* an accepted id whose processing failed and whose catch block threw
C22_Witness ==
  \E id \in Ids :
    /\ accepted[id] >= 1
    /\ db[id].status = "FAILED"
    /\ rejections["A"] # {}


\* ---------------------------------------------------------------------
\* C23: when refundUser itself throws for a failed withdrawal, the record
\* stays FAILED, the queue does not put the id back into its pending list,
\* the backend transfer of the id is not called again, and the finally
\* block starts the next queued id.
RefundFailed(q, id) == <<id, RefundError>> \in rejections[q]

C23_RefundFailureIsFinal ==
  [][\A q \in Queues : \A id \in Ids :
       /\ (~RefundFailed(q, id) /\ RefundFailed(q, id)') =>
            /\ db'[id].status = "FAILED"
            /\ ~Includes(queue'[q], id)
            /\ id \notin processingTransactions'[q]
            /\ transferCalls' = transferCalls
            /\ queue[q] # <<>> =>
                 \E g \in FlowsOf(q) :
                   flow'[g].pc = "findOne" /\ flow'[g].id = Head(queue[q])
       /\ RefundFailed(q, id) =>
            /\ db'[id].status = "FAILED"
            /\ transferCalls'[id] = transferCalls[id]
            /\ (Includes(queue'[q], id) /\ ~Includes(queue[q], id)) =>
                 accepted'[id] > accepted[id]]_vars

\* the refund of one id failed and a later queued id was claimed
C23_Witness ==
  \E id \in Ids : \E j \in Ids \ {id} :
    /\ RefundFailed("A", id)
    /\ db[id].status = "FAILED"
    /\ transferCalls[id] = 1
    /\ db[j].status = "PROCESSING"


\* ---------------------------------------------------------------------
\* the chain identifiers the platform knows: the ones processNext names and
\* the EVM chains
EvmChains == {"ETH"}
RecognizedChains == UtxoChains \cup {"SOL", "TRON", "XMR"} \cup EvmChains

\* C21 as stated: a row whose metadata is malformed, has no chain, or names
\* a chain that is not a recognized one never has a backend invoked, and
\* once it was claimed and its processing is over its record is FAILED.
C21_InvalidRoutingFails ==
  \A id \in Ids :
    (profile[id].exists /\ profile[id].meta \notin RecognizedChains)
    => /\ invoked[id] = <<>>
       /\ (claims[id] >= 1 /\ Settled(id)) => db[id].status = "FAILED"

\* the handler the chains of a family are sent to
ExpectedHandler ==
  [BTC |-> "UTXO", LTC |-> "UTXO", DOGE |-> "UTXO", DASH |-> "UTXO",
   SOL |-> "SOL", TRON |-> "TRON", XMR |-> "XMR", ETH |-> "EVM"]

\* the call c is the handler of the family of id's chain, called with the
\* id, the wallet id, the amount and the destination address of the row
RightCall(id, c) ==
  /\ c.handler = ExpectedHandler[profile[id].meta]
  /\ c.transactionId = id
  /\ c.walletId = profile[id].walletId
  /\ c.amount = profile[id].amount
  /\ c.toAddress = profile[id].toAddress

Routed(id) == profile[id].exists /\ profile[id].meta \in RecognizedChains

IsPrefix(a, b) == Len(a) <= Len(b) /\ SubSeq(b, 1, Len(a)) = a

Draining == {t \in Tasks : monero.task[t].pc = "drain"}

C30_SingleWorkerFifo ==
  [][/\ monero'.executing <= 1
     /\ Cardinality(Draining') <= 1
     /\ monero'.processing <=> Draining' # {}
     /\ \/ /\ IsPrefix(monero.queue, monero'.queue)
           /\ monero'.running # monero.running =>
                /\ monero.queue = <<>>
                /\ monero'.running # NoOp => monero.running = NoOp
        \/ /\ monero.queue # <<>>
           /\ IsPrefix(Tail(monero.queue), monero'.queue)
           /\ monero'.running = Head(monero.queue)]_vars

\* two operations added by one call wait while an operation of another
\* call executes
C30_Witness ==
  /\ monero.executing = 1
  /\ Len(monero.queue) >= 2
  /\ monero.running.by # monero.queue[1].by
  /\ monero.queue[1].kind = "open_wallet"
  /\ monero.queue[2].kind = "close_wallet"


\* ---------------------------------------------------------------------
\* C27: the deposit monitor creates a record only for a transfer that has
\* minConfirmations (6).  A loop that has seen the transfer with fewer does
\* not enter processMoneroTransaction: it creates no record, adds nothing to
\* processedTransactions and leaves the wallet monitored (unless this poll
\* was the last of the budget), and a record is created only by a loop
\* that has seen 6 confirmations or more, on a chain that has them.
SeesBelow(t) ==
  /\ monero.task[t].pc = "get_transfers"
  /\ monero'.task[t].pc # "get_transfers"
  /\ monero.task[t].seen # NoTransfers
  /\ monero.task[t].seen < 6

C27_OnlyConfirmedStored ==
  [][/\ \A t \in Loops :
          SeesBelow(t) =>
            /\ monero'.task[t].pc \notin {"findOne", "store"}
            /\ monero'.deposits = monero.deposits
            /\ monero'.processedTransactions = monero.processedTransactions
            /\ monero'.monitoredWallets # monero.monitoredWallets =>
                 monero.task[t].retryCount + 1 >= MaxRetries
     /\ monero'.deposits # monero.deposits =>
          /\ monero.confirmations >= 6
          /\ \E t \in Loops :
               monero.task[t].pc = "store" /\ monero.task[t].seen >= 6]_vars

\* a loop has seen the transfer with 5 confirmations, closed the wallet and
\* set its timer; the wallet is still monitored and nothing is recorded
C27_Witness ==
  \E t \in Loops :
    /\ monero.task[t].pc = "timer"
    /\ monero.task[t].seen = 5
    /\ Includes(monero.monitoredWallets, monero.task[t].wallet)
    /\ monero.deposits["T"] = 0
    /\ "T" \notin monero.processedTransactions


\* ---------------------------------------------------------------------
\* C29 as stated: a deposit record is stored only while processedTransactions
\* does not hold the tx id and no record with the tx id exists; and the id
\* is in processedTransactions only when a record of it exists (so a store
\* that throws before writing leaves the id out of the set).
C29_StoredOnlyWhenUnknown ==
  [][/\ monero'.deposits # monero.deposits =>
          /\ "T" \notin monero.processedTransactions
          /\ monero.deposits["T"] = 0
     /\ "T" \in monero'.processedTransactions =>
          monero'.deposits["T"] >= 1]_vars


\* ---------------------------------------------------------------------
\* C26: every execution of handleMoneroWithdrawal is followed by a
\* close_wallet request of its own, whatever became of open_wallet, of the
\* transfer and of the status write: while the withdrawal is between its
\* openWallet and its finally block, a close_wallet that it queued will be
\* sent to the wallet RPC server.
InWithdrawal ==
  LET w == monero.task[WithdrawalTask] IN
  \/ w.pc \in {"transfer", "writeC", "writeF"}
  \/ w.pc = "drain" /\ w.next = "open_wallet"

ClosingWithdrawal ==
  /\ monero.running.kind = "close_wallet"
  /\ monero.running.by = WithdrawalTask

C26_CloseFollows == InWithdrawal ~> ClosingWithdrawal

\* the wallet of the withdrawal could not be opened, the transfer failed,
\* and the close_wallet of the withdrawal is at the server
C26_Witness ==
  /\ ClosingWithdrawal
  /\ monero.walletFileLost
  /\ monero.task[WithdrawalTask].res = "error"


\* ---------------------------------------------------------------------
\* C25 as stated: a wallet that is in monitoredWallets leaves it at some
\* later time (by a stored deposit, by unmonitorMoneroDeposits, or when its
\* loop has used up its polls), also when a poll has raised an error.
Monitored(w) == Includes(monero.monitoredWallets, w)

C25_EventuallyUnmonitored == Monitored(PaidWallet) ~> ~Monitored(PaidWallet)


\* ---------------------------------------------------------------------
\* C24: a watch whose inactivity timer fires (no log event came within the
\* idle window) has no listener registered from that step on, and a log
\* event emitted after that creates no deposit record and changes nothing
\* of the watch: nothing is tracked, stored or re-subscribed.
IdledOut(a) == solana[a].timer = "fired"

C24_IdleListenerRemoved ==
  [][\A a \in Addresses :
       /\ IdledOut(a)' => ~solana'[a].listening
       /\ IdledOut(a) =>
            /\ solana'[a].deposits = solana[a].deposits
            /\ solana'[a].tracking = 0
            /\ solana'[a].timer = "fired"
            /\ solana'[a].events # solana[a].events =>
                 /\ solana'[a].late = solana[a].late + 1
                 /\ solana'[a].logsSubscriptionId
                      = solana[a].logsSubscriptionId
                 /\ solana'[a].closing = solana[a].closing]_vars

\* the timer of a subscribed watch has fired and its handler has called
\* removeOnLogsListener; log events came afterwards and found no listener:
\* no record
C24_Witness ==
  \E a \in Addresses :
    /\ IdledOut(a)
    /\ solana[a].logsSubscriptionId = FirstSubscriptionId
    /\ solana[a].closing = 1
    /\ ~solana[a].listening
    /\ solana[a].late = MaxEvents
    /\ solana[a].deposits = 0


\* ---------------------------------------------------------------------
\* C31: every operation added to the operation queue is executed, once.
\* The operations that were added and have not ended (the one executing,
\* then the queue) only lose their first, when it has ended, and only grow
\* at the end; and an operation of any call that waits in the queue gets
\* executed, also behind an open_wallet that threw and also when it was
\* added while another call was draining the queue.
OpKinds == {"open_wallet", "close_wallet"}

NotEnded(m) ==
  (IF m.running # NoOp THEN <<m.running>> ELSE <<>>) \o m.queue

Queued(t, k) ==
  \E i \in 1..Len(monero.queue) :
    monero.queue[i].by = t /\ monero.queue[i].kind = k

Executing(t, k) == monero.running.by = t /\ monero.running.kind = k

C31_EveryOperationRuns ==
  /\ [][\/ IsPrefix(NotEnded(monero), NotEnded(monero'))
        \/ /\ monero.running # NoOp
           /\ IsPrefix(Tail(NotEnded(monero)), NotEnded(monero'))]_vars
  /\ \A t \in Tasks : \A k \in OpKinds : Queued(t, k) ~> Executing(t, k)

\* the close_wallet of a withdrawal whose open_wallet threw is executing,
\* in a drain run by a deposit loop: it was added during that drain
C31_Witness ==
  /\ Executing(WithdrawalTask, "close_wallet")
  /\ monero.walletFileLost
  /\ monero.task[WithdrawalTask].pc = "done"
  /\ \E t \in Loops : monero.task[t].pc = "drain"


\* ---------------------------------------------------------------------
\* C32 as stated: a monitored wallet has at most one active poll loop (a
\* check that is running or a retry timer that is pending), whatever calls
\* of monitorMoneroDeposits and unmonitorMoneroDeposits were made.
ActiveLoop(t) == monero.task[t].pc \notin {"idle", "done", "stopped"}

LoopsOf(w) == {t \in Loops : ActiveLoop(t) /\ monero.task[t].wallet = w}

C32_OneLoopPerWallet ==
  \A w \in Wallets : Monitored(w) => Cardinality(LoopsOf(w)) <= 1


\* ---------------------------------------------------------------------
\* C33: a loop schedules a retry only for a wallet that is monitored, so
\* once unmonitorMoneroDeposits has removed a wallet (and as long as it is
\* not monitored again) none of its loops sets a timer or starts: each of
\* them finishes the poll that was scheduled or in flight, and then there
\* is no active loop for the wallet.
SchedulesRetry(t) ==
  monero.task[t].pc # "timer" /\ monero'.task[t].pc = "timer"

StartsLoop(t) == monero.task[t].pc = "idle" /\ monero'.task[t].pc # "idle"

C33_NoRetryAfterUnmonitor ==
  /\ [][\A t \in Loops :
          (SchedulesRetry(t) \/ StartsLoop(t)) =>
             /\ Includes(monero'.monitoredWallets, monero'.task[t].wallet)
             /\ Includes(monero.monitoredWallets, monero'.task[t].wallet)
                  \/ StartsLoop(t)]_vars
  /\ \A w \in Wallets :
       ~Monitored(w) ~> (Monitored(w) \/ LoopsOf(w) = {})

\* a wallet was unmonitored while a retry timer of its loop was pending;
\* the timer has fired and the loop is inside its last poll
C33_Witness ==
  \E t \in Loops :
    /\ monero.task[t].retryCount >= 1
    /\ monero.task[t].pc = "get_transfers"
    /\ ~Monitored(monero.task[t].wallet)
    /\ monero.calls < MaxCalls - 1


\* ---------------------------------------------------------------------
\* C34: trackTransactionSignature makes at most maxRetries lookups of a
\* signature (a lookup is made only with fewer failed ones behind it); a
\* call that has used them up without finding the transaction returns and
\* stores nothing; and a record is stored only by a call that found a
\* transaction with meta whose account keys hold the watched address and
\* whose balance for it grew.
Events == 1..MaxEvents

Increase(tx) == tx.meta /\ tx.keyed /\ tx.post - tx.pre > 0

C34_BoundedLookupsGuardedStore ==
  [][\A a \in Addresses :
       /\ \A e \in Events :
            /\ solana'[a].track[e].pc = "lookup" =>
                 solana'[a].track[e].retries < MaxLookups
            /\ solana'[a].track[e].retries <= MaxLookups
            /\ (/\ solana[a].track[e].pc = "sleep"
                /\ solana[a].track[e].retries = MaxLookups
                /\ solana'[a].track[e] # solana[a].track[e]) =>
                 /\ solana'[a].track[e] = NoTrack
                 /\ solana'[a].deposits = solana[a].deposits
            /\ solana'[a].track[e].pc = "store" =>
                 Increase(solana'[a].track[e].tx)
       /\ solana'[a].deposits # solana[a].deposits =>
            \E e \in Events :
              /\ solana[a].track[e].pc = "store"
              /\ Increase(solana[a].track[e].tx)
              /\ solana'[a].track[e] = NoTrack
              /\ solana'[a].deposits = solana[a].deposits + 1]_vars

\* two events are tracked: the call for one has stored a record, the call
\* for the other is in the pause after its last lookup failed
C34_Witness ==
  \E a \in Addresses : \E e \in Events :
    /\ solana[a].track[e].pc = "sleep"
    /\ solana[a].track[e].retries = MaxLookups
    /\ solana[a].deposits = 1
    /\ solana[a].tracking = 1


\* ---------------------------------------------------------------------
\* C39 as stated: a listener that monitorSolanaDeposits has registered is
\* removed at some later time, by the inactivity timeout or after an
\* event was handled.
C39_ListenerEventuallyRemoved ==
  \A a \in Addresses : solana[a].listening ~> ~solana[a].listening


\* ---------------------------------------------------------------------
\* C35 as stated: a withdrawal whose record was written COMPLETED with the
\* referenceId of the transfer is never refunded and never written FAILED
\* afterwards, whatever a later step of the success path does.
Executed(id) ==
  db[id].status = "COMPLETED" /\ db[id].referenceId # NoRef

C35_NeverExecutedAndRefunded ==
  [][\A id \in 1..NumIds :
       Executed(id) =>
         /\ refunds'[id] = refunds[id]
         /\ db'[id].status = "COMPLETED"]_vars


\* ---------------------------------------------------------------------
\* C36: in every state of a WithdrawalQueue the pending list holds no id
\* twice, no id is both pending and in flight, and isProcessing is false
\* only with the in-flight set empty.
NoDuplicates(s) == \A i, j \in 1..Len(s) : s[i] = s[j] => i = j

C36_QueueInvariant ==
  \A q \in Queues :
    /\ NoDuplicates(queue[q])
    /\ \A i \in 1..Len(queue[q]) : queue[q][i] \notin processingTransactions[q]
    /\ ~isProcessing[q] => processingTransactions[q] = {}

\* an id that was processed before is in flight for the second time while
\* another id waits in the pending list
C36_Witness ==
  \E q \in Queues : \E id \in Ids :
    /\ isProcessing[q]
    /\ processingTransactions[q] = {id}
    /\ accepted[id] = 2
    /\ Len(queue[q]) = 1


\* ---------------------------------------------------------------------
\* C37: no accepted id is stranded.  Whenever the pending list of a
\* coordinator is not empty one of its flows is active (isProcessing is
\* true); an id leaves the pending list only by being put in flight; and,
\* every call that a flow awaits returning or throwing, an id that waits in
\* the pending list is dequeued, unless the promise of a backend call is
\* never settled.
Pending(q, id) == Includes(queue[q], id)

Hung == \E f \in FlowIds : flow[f].pc = AfterExecutorThrow

C37_NoIdStranded ==
  /\ [](\A q \in Queues : queue[q] # <<>> => isProcessing[q])
  /\ [][\A q \in Queues : \A id \in 1..NumIds :
          (Pending(q, id) /\ ~Pending(q, id)') =>
             /\ id \in processingTransactions'[q]
             /\ \E f \in FlowsOf(q) :
                  flow'[f].id = id /\ flow'[f].pc = "findOne"]_vars
  /\ \A id \in 1..NumIds : Pending("A", id) ~> (~Pending("A", id) \/ Hung)

\* an id was added while another was in flight, the flow of that one has
\* finished, and the id is now in flight itself with the list empty
C37_Witness ==
  \E id \in Ids : \E other \in Ids :
    /\ id # other
    /\ processingTransactions["A"] = {id}
    /\ queue["A"] = <<>>
    /\ accepted[other] = 1 /\ claims[other] = 1
    /\ db[other].status \in {"COMPLETED", "FAILED"}
    /\ db[id].status = "PROCESSING"


\* ---------------------------------------------------------------------
\* C38 as stated: the promise that handleMoneroWithdrawal returns is
\* settled.  A flow of processNext that awaits it goes on, to the success
\* path after resolve() or to the catch block after reject(), whatever the
\* transfer and the status writes did.
AwaitsMonero(f) ==
  flow[f].pc \in {"xmr_transfer", "xmr_writeC", "xmr_writeF",
                  AfterExecutorThrow}

C38_PromiseSettles ==
  \A f \in FlowIds : AwaitsMonero(f) ~> ~AwaitsMonero(f)

====
